---- MODULE Spec2Model ----
(***************************************************************************)
(* Model of the vocabulary matching game of src/vocab/flask_vocab.py:      *)
(* the startup code (globals WORDS and SEED), the page handler index and   *)
(* the form handler check, over the per-visitor Flask session.             *)
(*                                                                         *)
(* Strings are sequences of one-character strings, so that the letter      *)
(* counts of LetterBag are computed and not assumed.  Python's None is the *)
(* empty tuple NoneVal and a present value x is the one-tuple Some(x).     *)
(***************************************************************************)
EXTENDS Integers, Sequences, FiniteSets, TLC

VARIABLES
    pc,         \* "boot" before the module body has run, then "serving" or "aborted"
    config,     \* CONFIG: [VOCAB, SUCCESS_AT_COUNT, SEED] as configuration() returned it
    WORDS,      \* the global Vocab object (its word list)
    SEED,       \* the global SEED after lines 34-38: Some(int) or NoneVal
    session,    \* flask.session of every visitor, as stored between requests
    response    \* what the last request computed and returned

vars == <<pc, config, WORDS, SEED, session, response>>

----------------------------------------------------------------------------
(* Bounds of the model *)

\* SUCCESS_AT_COUNT is drawn from 0..MaxSuccessAt
MaxSuccessAt == 4
\* an integer seed is drawn from -1..MaxSeed
MaxSeed == 1
\* an unseeded shuffle is one of the rotations 0..MaxShift of the letter pool
MaxShift == 0

----------------------------------------------------------------------------
(* Values *)

NoneVal == <<>>
Some(x) == <<x>>
IsNone(o) == o = NoneVal
Val(o) == o[1]

Min(a, b) == IF a <= b THEN a ELSE b

Range(s) == {s[i] : i \in 1..Len(s)}

Visitors == {"v1", "v2"}

act == <<"a", "c", "t">>
cat == <<"c", "a", "t">>
tact == <<"t", "a", "c", "t">>
\* no word of the vocabulary: its letters are those of tact
ttac == <<"t", "t", "a", "c">>
\* the word cat as a visitor may type it: a leading space, a capital letter
spCat == <<" ", "C", "a", "t">>

\* the letters of the model, in the order LetterBag renders them
Alphabet == <<"a", "c", "t">>

\* the word lists CONFIG.VOCAB may name
VocabFiles == {<<>>, <<act, cat, act, tact>>}

\* the values of request.args "text"
Texts == {act, cat, tact, ttac, spCat}

\* CONFIG.SEED as configuration() delivers it: an integer text, a text that
\* is no integer, or no value at all
SeedConfigs ==
    {[kind |-> "int", val |-> n] : n \in -1..MaxSeed}
        \cup {[kind |-> "nonint", val |-> 0], [kind |-> "absent", val |-> 0]}

NoSession == [stored |-> FALSE, jumble |-> <<>>, target_count |-> 0, matches |-> <<>>]

NoMessage == [fmt |-> "", args |-> <<>>]

NoResponse ==
    [op |-> "none", visitor |-> "v1", text |-> <<>>, status |-> "none",
     word |-> NoneVal, message |-> NoMessage, seed |-> NoneVal,
     target_count |-> 0, jumble |-> <<>>, line |-> 0]

\* the response, marked with the source line it was returned or raised at
At(line, r) == [r EXCEPT !.line = line]

----------------------------------------------------------------------------
(* LetterBag *)

RECURSIVE Count(_, _)
Count(ch, s) ==
    IF s = <<>> THEN 0
    ELSE (IF Head(s) = ch THEN 1 ELSE 0) + Count(ch, Tail(s))

\* LetterBag(jumble).contains(text)
Contains(jumble, text) ==
    \A ch \in Range(text) : Count(ch, text) <= Count(ch, jumble)

----------------------------------------------------------------------------
(* Vocab *)

RECURSIVE Dedup(_)
Dedup(ws) ==
    IF ws = <<>> THEN <<>>
    ELSE LET rest == Dedup(SubSeq(ws, 1, Len(ws) - 1))
             w == ws[Len(ws)]
         IN IF w \in Range(rest) THEN rest ELSE Append(rest, w)

\* Vocab(CONFIG.VOCAB): the distinct words of the list, in their order
Vocab(file) == Dedup(file)

\* WORDS.as_list()
AsList(words) == words

\* WORDS.has(text)
Has(words, text) == text \in Range(words)

----------------------------------------------------------------------------
(* jumbled *)

RECURSIVE Repeat(_, _)
Repeat(ch, n) == IF n <= 0 THEN <<>> ELSE <<ch>> \o Repeat(ch, n - 1)

MaxOf(S) == IF S = {} THEN 0 ELSE CHOOSE m \in S : \A x \in S : x <= m

\* the merged letter bag of the selected words: every letter as often as
\* the selected word that needs it most
RECURSIVE PoolFrom(_, _)
PoolFrom(i, selected) ==
    IF i > Len(Alphabet) THEN <<>>
    ELSE Repeat(Alphabet[i], MaxOf({Count(Alphabet[i], w) : w \in selected}))
             \o PoolFrom(i + 1, selected)

Pool(selected) == PoolFrom(1, selected)

Rotate(s, k) ==
    IF s = <<>> THEN s
    ELSE [i \in 1..Len(s) |-> s[((i - 1 + k) % Len(s)) + 1]]

\* the sample and the shuffle of a generator seeded with seed
SeededSample(vocab, n, seed) ==
    {vocab[((seed + i) % Len(vocab)) + 1] : i \in 0..(n - 1)}

\* jumbled(vocab, n, seed): the set of strings the call can return
\* (one string when seeded); {} when it raises on an empty word list
Jumbled(vocab, n, seed) ==
    IF vocab = <<>> THEN {}
    ELSE IF IsNone(seed)
         THEN {Rotate(Pool(sel), k) :
                  sel \in {S \in SUBSET Range(vocab) : Cardinality(S) = Min(n, Len(vocab))},
                  k \in 0..MaxShift}
         ELSE LET pool == Pool(SeededSample(vocab, n, Val(seed)))
              IN {Rotate(pool, Val(seed))}

----------------------------------------------------------------------------
(* Startup: the module body, lines 23-38 *)

Init ==
    /\ pc = "boot"
    /\ config \in [VOCAB : VocabFiles, SUCCESS_AT_COUNT : 0..MaxSuccessAt,
                   SEED : SeedConfigs]
    /\ WORDS = <<>>
    /\ SEED = NoneVal
    /\ session = [v \in Visitors |-> NoSession]
    /\ response = NoResponse

\* int(SEED) of line 36: "value", "ValueError" or "TypeError"
IntOutcome(s) ==
    CASE s.kind = "int" -> "value"
      [] s.kind = "nonint" -> "ValueError"
      [] OTHER -> "TypeError"

\* SEED after the try/except of lines 34-38, when the module body completes
SeedGlobal(s) == IF IntOutcome(s) = "value" THEN Some(s.val) ELSE NoneVal

Startup ==
    /\ pc = "boot"
    /\ WORDS' = Vocab(config.VOCAB)
    /\ IF IntOutcome(config.SEED) = "TypeError"
       THEN /\ pc' = "aborted"
            /\ SEED' = NoneVal
       ELSE /\ pc' = "serving"
            /\ SEED' = SeedGlobal(config.SEED)
    /\ UNCHANGED <<config, session, response>>

----------------------------------------------------------------------------
(* index, lines 47-59 *)

\* the seed argument of line 53
SeedArg(seed) ==
    IF IsNone(seed) \/ Val(seed) = 0 \/ Val(seed) < 0 THEN NoneVal ELSE seed

\* line 50-51
TargetCount(vocab, successAt) == Min(Len(vocab), successAt)

IndexResponse(v, status, tc, seed, jumble) ==
    [op |-> "index", visitor |-> v, text |-> <<>>, status |-> status,
     word |-> NoneVal, message |-> NoMessage, seed |-> seed,
     target_count |-> tc, jumble |-> jumble, line |-> 0]

\* a new game that keeps the words of the game before it
NewGameKeeping(s, jumble, tc) ==
    [s EXCEPT !.stored = TRUE, !.target_count = tc, !.jumble = jumble]

\* lines 50-54: the three session variables of a new game
NewGame(s, jumble, tc) ==
    [s EXCEPT !.stored = TRUE, !.target_count = tc, !.jumble = jumble,
              !.matches = <<>>]

\* the game kept in one place for all visitors
SetShared(sessions, v, s) == [w \in DOMAIN sessions |-> s]

\* flask.session[...] = ... : the write goes to the session of the visitor
\* whose request it is
SetSession(sessions, v, s) == [sessions EXCEPT ![v] = s]

\* the assertion compiled away
AssertSkipped(tc) == TRUE

\* line 57: assert flask.session["target_count"] > 0
AssertTarget(tc) == tc > 0

index(v) ==
    /\ pc = "serving"
    /\ LET vocab == AsList(WORDS)
           tc == TargetCount(vocab, config.SUCCESS_AT_COUNT)
           seed == SeedArg(SEED)
       IN IF Jumbled(vocab, tc, seed) = {}
          THEN \* jumbled raised: the request ends in an error, nothing is stored
               /\ response' = IndexResponse(v, "InvalidInput", tc, seed, <<>>)
               /\ UNCHANGED session
          ELSE \E j \in Jumbled(vocab, tc, seed) :
                 IF AssertTarget(tc)
                 THEN /\ session' = SetSession(session, v, NewGame(session[v], j, tc))
                      /\ response' = IndexResponse(v, "page", tc, seed, j)
                 ELSE \* the assertion of line 57 fails: the request ends in
                      \* an error and the session cookie is not written
                      /\ response' = IndexResponse(v, "AssertionError", tc, seed, j)
                      /\ UNCHANGED session
    /\ UNCHANGED <<pc, config, WORDS, SEED>>

----------------------------------------------------------------------------
(* check, lines 81-122 *)

AlreadyFound(text) == [fmt |-> "You already found {}", args |-> <<text>>]
NotInVocabulary(text) == [fmt |-> "{} isn't in the list of words", args |-> <<text>>]
NotInJumble(text, jumble) ==
    [fmt |-> "\"{}\" can't be made from the letters {}", args |-> <<text, jumble>>]

CheckResponse(v, text, status, word, message) ==
    [op |-> "check", visitor |-> v, text |-> text, status |-> status,
     word |-> word, message |-> message, seed |-> NoneVal,
     target_count |-> 0, jumble |-> <<>>, line |-> 0]

\* the session keys read with defaults for the missing ones
ReadsWithDefaults(s) == TRUE

\* lines 87, 94, 95: flask.session["jumble"], ["target_count"] and
\* ["matches"] are read without a default, which needs the keys index stores
HasGame(s) == s.stored

\* a test that forgets the letters of the jumble
AcceptsAnyVocab(matched, in_jumble, text, matches) ==
    matched /\ ~(text \in Range(matches))

\* a test that forgets the words already found
AcceptsAgain(matched, in_jumble, text, matches) == matched /\ in_jumble

\* line 98
Accepts(matched, in_jumble, text, matches) ==
    matched /\ in_jumble /\ ~(text \in Range(matches))

\* the new word put in front of the list
Prepended(matches, text) == <<text>> \o matches

\* line 99: matches.append(text)
Appended(matches, text) == Append(matches, text)

\* the list written under the wrong key
StoredWrongKey(s, matches) == [s EXCEPT !.jumble = matches]

\* a new round begun by the word that follows a reached target
StoredNewRound(s, matches) ==
    IF Len(s.matches) >= s.target_count
    THEN [s EXCEPT !.matches = <<matches[Len(matches)]>>]
    ELSE [s EXCEPT !.matches = matches]

\* line 100: flask.session["matches"] = matches
Stored(s, matches) == [s EXCEPT !.matches = matches]

\* a target that must be met exactly
ReachedExactly(matches, target_count) == Len(matches) = target_count

\* a target that must be exceeded
ReachedStrict(matches, target_count) == Len(matches) > target_count

\* line 102
Reached(matches, target_count) == Len(matches) >= target_count

Placeholder == [fmt |-> "Your error or success message here", args |-> <<>>]

\* lines 118-122: the code that follows the if/elif chain
AfterChain(v, text, matches, target_count) ==
    IF Len(matches) >= target_count
    THEN At(120, CheckResponse(v, text, "success", NoneVal, NoMessage))
    ELSE At(122, CheckResponse(v, text, "keep_going", NoneVal, Placeholder))

\* the accepting branch without the return of line 106
AcceptanceFallsThrough(v, text, appended, target_count) ==
    IF Reached(appended, target_count)
    THEN At(104, CheckResponse(v, text, "success", NoneVal, NoMessage))
    ELSE AfterChain(v, text, appended, target_count)

\* lines 102-106: the answer to an accepted word
Acceptance(v, text, appended, target_count) ==
    IF Reached(appended, target_count)
    THEN At(104, CheckResponse(v, text, "success", NoneVal, NoMessage))
    ELSE At(106, CheckResponse(v, text, "keep_going", Some(text), NoMessage))

\* the chain without its branch for a word already found
RejectionNoAlready(v, text, matched, in_jumble, matches, jumble) ==
    IF ~matched
    THEN CheckResponse(v, text, "error", NoneVal, NotInVocabulary(text))
    ELSE IF ~in_jumble
    THEN CheckResponse(v, text, "error", NoneVal, NotInJumble(text, jumble))
    ELSE CheckResponse(v, text, "AssertionError", NoneVal, NoMessage)

\* the chain with the jumble test ahead of the vocabulary test
RejectionJumbleFirst(v, text, matched, in_jumble, matches, jumble) ==
    IF text \in Range(matches)
    THEN CheckResponse(v, text, "error", NoneVal, AlreadyFound(text))
    ELSE IF ~in_jumble
    THEN CheckResponse(v, text, "error", NoneVal, NotInJumble(text, jumble))
    ELSE IF ~matched
    THEN CheckResponse(v, text, "error", NoneVal, NotInVocabulary(text))
    ELSE CheckResponse(v, text, "AssertionError", NoneVal, NoMessage)

\* the chain raising an exception for a word outside the vocabulary
RejectionRaising(v, text, matched, in_jumble, matches, jumble) ==
    IF text \in Range(matches)
    THEN CheckResponse(v, text, "error", NoneVal, AlreadyFound(text))
    ELSE IF ~matched
    THEN CheckResponse(v, text, "ValueError", NoneVal, NoMessage)
    ELSE IF ~in_jumble
    THEN CheckResponse(v, text, "error", NoneVal, NotInJumble(text, jumble))
    ELSE CheckResponse(v, text, "AssertionError", NoneVal, NoMessage)

\* lines 108-116: the elif chain
Rejection(v, text, matched, in_jumble, matches, jumble) ==
    IF text \in Range(matches)
    THEN At(109, CheckResponse(v, text, "error", NoneVal, AlreadyFound(text)))
    ELSE IF ~matched
    THEN At(111, CheckResponse(v, text, "error", NoneVal, NotInVocabulary(text)))
    ELSE IF ~in_jumble
    THEN At(113, CheckResponse(v, text, "error", NoneVal, NotInJumble(text, jumble)))
    ELSE At(116, CheckResponse(v, text, "AssertionError", NoneVal, NoMessage))

check(v, text) ==
    /\ pc = "serving"
    /\ IF ~HasGame(session[v])
       THEN \* line 87 raises KeyError
            /\ response' = At(87, CheckResponse(v, text, "KeyError", NoneVal, NoMessage))
            /\ UNCHANGED session
       ELSE LET jumble == session[v].jumble
                matches == session[v].matches
                in_jumble == Contains(jumble, text)
                matched == Has(WORDS, text)
            IN IF Accepts(matched, in_jumble, text, matches)
               THEN LET appended == Appended(matches, text)
                    IN /\ session' = SetSession(session, v, Stored(session[v], appended))
                       /\ response' =
                            Acceptance(v, text, appended, session[v].target_count)
               ELSE /\ UNCHANGED session
                    /\ response' =
                         Rejection(v, text, matched, in_jumble, matches, jumble)
    /\ UNCHANGED <<pc, config, WORDS, SEED>>

----------------------------------------------------------------------------

Index == \E v \in Visitors : index(v)
Check == \E v \in Visitors : \E text \in Texts : check(v, text)

Next == Startup \/ Index \/ Check

Spec == Init /\ [][Next]_vars

----------------------------------------------------------------------------
(* Properties *)

\* the step is the request check(v, t)
CheckStep(v, t) ==
    /\ response'.op = "check"
    /\ response'.visitor = v
    /\ response'.text = t

\* the step is the request index(v)
IndexStep(v) ==
    /\ response'.op = "index"
    /\ response'.visitor = v

\* the step appended t to the matches of v
AcceptStep(v, t) == session'[v].matches = Append(session[v].matches, t)

Accepted(status) == status \in {"success", "keep_going"}

Complete(s) == s.stored /\ Len(s.matches) >= s.target_count

NoDuplicates(m) == \A i, j \in 1..Len(m) : m[i] = m[j] => i = j

\* C1: in a session created by index, check appends the submitted word to
\* matches if and only if the word can be made from the jumble, is in the
\* vocabulary and is not yet in matches; otherwise matches stays as it was.
C1_AcceptIff ==
    [][\A v \in Visitors, t \in Texts :
         (CheckStep(v, t) /\ session[v].stored) =>
            IF /\ Contains(session[v].jumble, t)
               /\ Has(WORDS, t)
               /\ t \notin Range(session[v].matches)
            THEN AcceptStep(v, t)
            ELSE session'[v].matches = session[v].matches]_vars

\* a word was just accepted: it is the last of the matches
C1_Witness ==
    /\ response.op = "check"
    /\ Accepted(response.status)
    /\ session[response.visitor].matches # <<>>
    /\ session[response.visitor].matches[Len(session[response.visitor].matches)]
          = response.text

\* C2: an accepted word is answered with "success" exactly when matches,
\* after the append, has at least target_count words, and otherwise with
\* "keep_going" carrying the word; a submission that was not accepted is
\* answered with neither.
C2_SuccessIffReached ==
    [][\A v \in Visitors, t \in Texts :
         CheckStep(v, t) =>
            IF session[v].stored /\ AcceptStep(v, t)
            THEN /\ response'.status = "success"
                      <=> Len(session'[v].matches) >= session'[v].target_count
                 /\ response'.status # "success"
                      => /\ response'.status = "keep_going"
                         /\ response'.word = Some(t)
            ELSE ~Accepted(response'.status)]_vars

\* the accepted word that brings matches to exactly target_count, after a
\* word that did not
C2_Witness ==
    /\ response.op = "check"
    /\ response.status = "success"
    /\ Len(session[response.visitor].matches) = session[response.visitor].target_count
    /\ session[response.visitor].target_count >= 2

\* C3: a word that is already in matches is answered with the error
\* "You already found <word>", and the session is left as it was.
C3_AlreadyFound ==
    [][\A v \in Visitors, t \in Texts :
         (CheckStep(v, t) /\ session[v].stored /\ t \in Range(session[v].matches)) =>
            /\ response'.status = "error"
            /\ response'.message = AlreadyFound(t)
            /\ session' = session]_vars

\* a found word was submitted again
C3_Witness ==
    /\ response.op = "check"
    /\ response.message = AlreadyFound(response.text)
    /\ response.text \in Range(session[response.visitor].matches)

\* C4: a word that is neither in matches nor in the vocabulary is answered
\* with "<word> isn't in the list of words", whether or not the jumble has
\* its letters; the "can't be made from the letters" answer is given exactly
\* for a word of the vocabulary, not yet matched, that the jumble cannot make.
C4_VocabularyBeforeJumble ==
    [][\A v \in Visitors, t \in Texts :
         (CheckStep(v, t) /\ session[v].stored) =>
            LET matches == session[v].matches
                jumble == session[v].jumble
            IN /\ (t \notin Range(matches) /\ ~Has(WORDS, t)) =>
                     /\ response'.status = "error"
                     /\ response'.message = NotInVocabulary(t)
               /\ (response'.message = NotInJumble(t, jumble)) <=>
                     /\ Has(WORDS, t)
                     /\ t \notin Range(matches)
                     /\ ~Contains(jumble, t)]_vars

\* a word outside the vocabulary that the jumble cannot make was refused
\* for not being in the vocabulary
C4_Witness ==
    /\ response.op = "check"
    /\ response.message = NotInVocabulary(response.text)
    /\ ~Contains(session[response.visitor].jumble, response.text)

\* C5: check never changes jumble or target_count; it changes matches only
\* with an accepting answer; with an error answer the session is as before.
C5_CheckFrame ==
    [][\A v \in Visitors, t \in Texts :
         CheckStep(v, t) =>
            /\ session'[v].stored = session[v].stored
            /\ session'[v].jumble = session[v].jumble
            /\ session'[v].target_count = session[v].target_count
            /\ session'[v].matches # session[v].matches => Accepted(response'.status)
            /\ ~Accepted(response'.status) => session' = session]_vars

\* a word was accepted in a session whose jumble is a string of letters
C5_Witness ==
    /\ response.op = "check"
    /\ response.status = "keep_going"
    /\ session[response.visitor].matches # <<>>
    /\ Len(session[response.visitor].jumble) = 4

\* C6: once a session has at least target_count matches it keeps having
\* them through every check; only a new game started by index for that
\* visitor ends the condition.
C6_CompleteIsTerminal ==
    [][\A v \in Visitors :
         (Complete(session[v]) /\ ~IndexStep(v)) => Complete(session'[v])]_vars

\* a word was accepted in a session that was complete already
C6_Witness ==
    /\ response.op = "check"
    /\ Accepted(response.status)
    /\ Len(session[response.visitor].matches)
          > session[response.visitor].target_count

\* C7: after index the visitor's matches is empty, whatever the session
\* held before (matches found, a complete game, a new game just started),
\* and when the page is returned the session holds the jumble and the
\* target_count this call computed.
C7_IndexResets ==
    [][\A v \in Visitors :
         IndexStep(v) =>
            /\ session'[v].matches = <<>>
            /\ response'.status = "page" =>
                  /\ session'[v].stored
                  /\ session'[v].jumble = response'.jumble
                  /\ session'[v].jumble
                        \in Jumbled(AsList(WORDS), response'.target_count, response'.seed)
                  /\ session'[v].target_count = response'.target_count
                  /\ session'[v].target_count
                        = Min(Len(AsList(WORDS)), config.SUCCESS_AT_COUNT)]_vars

\* a new game was started while another visitor's game has matches
C7_Witness ==
    /\ response.op = "index"
    /\ response.status = "page"
    /\ session[response.visitor].matches = <<>>
    /\ \E v \in Visitors : Len(session[v].matches) >= 2

\* C8: matches never holds a word twice, and a step either leaves a
\* visitor's matches alone, empties it (index), or extends it at the end by
\* the one word check just accepted.
C8_DistinctInOrder ==
    /\ [](\A v \in Visitors : NoDuplicates(session[v].matches))
    /\ [][\A v \in Visitors :
            \/ session'[v].matches = session[v].matches
            \/ IndexStep(v) /\ session'[v].matches = <<>>
            \/ /\ CheckStep(v, response'.text)
               /\ Accepted(response'.status)
               /\ session'[v].matches = Append(session[v].matches, response'.text)]_vars

\* three words were found, one after the other
C8_Witness ==
    /\ response.op = "check"
    /\ Accepted(response.status)
    /\ Len(session[response.visitor].matches) = 3
    /\ session[response.visitor].matches[3] = response.text

\* C9: after index on a non-empty vocabulary, target_count is
\* min(vocabulary size, SUCCESS_AT_COUNT), is positive and is at most the
\* vocabulary size, and the assertion of line 57 holds.
C9_TargetPositive ==
    (response.op = "index" /\ WORDS # <<>>) =>
        /\ response.target_count = Min(Len(WORDS), config.SUCCESS_AT_COUNT)
        /\ response.target_count > 0
        /\ response.target_count <= Len(WORDS)
        /\ response.status # "AssertionError"

\* C10: a configured seed that is an integer >= 0 (0 included) is the seed
\* a completed index passed to jumbled, so that all new games get the same
\* jumble; jumbled is called without a seed only when the configured seed is
\* no integer or negative.
C10_SeedPassed ==
    /\ (/\ response.op = "index"
        /\ response.status = "page"
        /\ config.SEED.kind = "int"
        /\ config.SEED.val >= 0) =>
          response.seed = Some(config.SEED.val)
    /\ (response.op = "index" /\ response.status = "page" /\ IsNone(response.seed)) =>
          (config.SEED.kind # "int" \/ config.SEED.val < 0)
    /\ (config.SEED.kind = "int" /\ config.SEED.val >= 0) =>
          \A v, w \in Visitors :
              (session[v].stored /\ session[w].stored) =>
                  session[v].jumble = session[w].jumble

\* the lower-case letter of a character
Lower(ch) == IF ch = "C" THEN "c" ELSE ch

RECURSIVE TrimLeft(_)
TrimLeft(s) == IF s # <<>> /\ Head(s) = " " THEN TrimLeft(Tail(s)) ELSE s

RECURSIVE TrimRight(_)
TrimRight(s) ==
    IF s # <<>> /\ s[Len(s)] = " " THEN TrimRight(SubSeq(s, 1, Len(s) - 1)) ELSE s

\* the normal form of a submitted word: trimmed, lower case
Normalize(s) ==
    LET t == TrimRight(TrimLeft(s)) IN [i \in 1..Len(t) |-> Lower(t[i])]

\* C11: the answer of check, and the word it stores, are those of the
\* trimmed lower-case form of the submitted text: an accepted text is stored
\* in that form, and a text is refused only for the reason that refuses its
\* normal form.
C11_NormalizedFirst ==
    (response.op = "check" /\ session[response.visitor].stored) =>
        LET s == session[response.visitor]
            n == Normalize(response.text)
        IN IF Accepted(response.status)
           THEN s.matches # <<>> /\ s.matches[Len(s.matches)] = n
           ELSE /\ response.status = "error"
                /\ n \in Range(s.matches) => response.message = AlreadyFound(n)
                /\ (n \notin Range(s.matches) /\ ~Has(WORDS, n)) =>
                      response.message = NotInVocabulary(n)
                /\ (n \notin Range(s.matches) /\ Has(WORDS, n)) =>
                      /\ ~Contains(s.jumble, n)
                      /\ response.message = NotInJumble(n, s.jumble)

\* C12: in a session created by index, check answers every submitted word
\* with one of three values: status "success", status "keep_going" with the
\* word, or status "error" with one of the three messages; it raises nothing.
C12_OutcomeIsValue ==
    (response.op = "check" /\ session[response.visitor].stored) =>
        \/ /\ response.status = "success"
           /\ response.word = NoneVal
           /\ response.message = NoMessage
        \/ /\ response.status = "keep_going"
           /\ response.word = Some(response.text)
           /\ response.message = NoMessage
        \/ /\ response.status = "error"
           /\ response.word = NoneVal
           /\ response.message \in
                 {AlreadyFound(response.text), NotInVocabulary(response.text),
                  NotInJumble(response.text, session[response.visitor].jumble)}

\* a word of the vocabulary that the jumble cannot make was refused with a
\* message
C12_Witness ==
    /\ response.op = "check"
    /\ response.status = "error"
    /\ response.message
          = NotInJumble(response.text, session[response.visitor].jumble)

\* C13: with an empty vocabulary every index fails with InvalidInput and no
\* visitor gets a game; no stored session has target_count = 0 or the empty
\* string as its jumble.
C13_NoGameWithoutWords ==
    /\ (pc = "serving" /\ WORDS = <<>>) =>
          /\ \A v \in Visitors : session[v] = NoSession
          /\ response.op = "index" => response.status = "InvalidInput"
    /\ \A v \in Visitors :
          session[v].stored =>
              /\ session[v].target_count > 0
              /\ session[v].jumble # <<>>

\* a new game was asked for on an empty vocabulary
C13_Witness ==
    /\ pc = "serving"
    /\ WORDS = <<>>
    /\ response.op = "index"
    /\ response.status = "InvalidInput"
    /\ \A v \in Visitors : ~session[v].stored

\* C14: a request of one visitor, index or check, leaves the session of
\* every other visitor as it was, in every order of the visitors' requests,
\* and the vocabulary is never changed once the server answers requests.
C14_SessionsIsolated ==
    [][/\ \A v \in Visitors :
             (IndexStep(v) \/ CheckStep(v, response'.text)) =>
                 \A w \in Visitors \ {v} : session'[w] = session[w]
       /\ pc = "serving" => WORDS' = WORDS]_vars

\* two visitors play at the same time with different matches, and the last
\* request accepted a word
C14_Witness ==
    /\ response.op = "check"
    /\ Accepted(response.status)
    /\ \A v \in Visitors : session[v].stored /\ session[v].matches # <<>>
    /\ session["v1"].matches # session["v2"].matches

\* C15: check never reaches the final else (assert False, line 116) and
\* never runs the code that follows the if/elif chain (the returns of lines
\* 120 and 122); for each of the eight values of the three tests the word is
\* accepted or one of the three elif branches answers.
C15_ChainExhaustive ==
    response.op = "check" =>
        /\ response.status # "AssertionError"
        /\ response.line \notin {116, 120, 122}
        /\ response.message # Placeholder
        /\ \A matched, in_jumble \in BOOLEAN :
              \A matches \in {<<>>, <<response.text>>} :
                 \/ Accepts(matched, in_jumble, response.text, matches)
                 \/ Rejection(response.visitor, response.text, matched, in_jumble,
                              matches, <<>>).line \in {109, 111, 113}

\* the three tests were all true: a found word, in the vocabulary and in
\* the jumble, was answered by the first elif
C15_Witness ==
    /\ response.op = "check"
    /\ response.line = 109
    /\ Has(WORDS, response.text)
    /\ Contains(session[response.visitor].jumble, response.text)
    /\ response.text \in Range(session[response.visitor].matches)

\* C16: every word in a visitor's matches is a word of the vocabulary that
\* the visitor's current jumble can make.
C16_MatchesFitJumble ==
    \A v \in Visitors :
        \A i \in 1..Len(session[v].matches) :
            /\ Has(WORDS, session[v].matches[i])
            /\ Contains(session[v].jumble, session[v].matches[i])

\* one visitor has found tact in a jumble of four letters while the other
\* has matches in a jumble of three
C16_Witness ==
    \E v, w \in Visitors :
        /\ tact \in Range(session[v].matches)
        /\ Len(session[v].jumble) = 4
        /\ session[w].matches # <<>>
        /\ Len(session[w].jumble) = 3

\* C17: in a session that has reached its target, a word of the vocabulary
\* that the jumble can make and that is not yet matched is appended and
\* answered with "success", and no check is answered with "keep_going".
C17_CompleteStillAccepts ==
    [][\A v \in Visitors, t \in Texts :
         (CheckStep(v, t) /\ Complete(session[v])) =>
            /\ response'.status # "keep_going"
            /\ (/\ Has(WORDS, t)
                /\ Contains(session[v].jumble, t)
                /\ t \notin Range(session[v].matches)) =>
                   /\ AcceptStep(v, t)
                   /\ response'.status = "success"
                   /\ Len(session'[v].matches) > session'[v].target_count]_vars

\* two words more than the target were found
C17_Witness ==
    /\ response.op = "check"
    /\ response.status = "success"
    /\ Len(session[response.visitor].matches)
          = session[response.visitor].target_count + 2

\* C18: a check in a session for which index never ran returns no outcome:
\* it raises KeyError at the read of the jumble (line 87) and leaves the
\* session without jumble, target_count and matches.
C18_CheckWithoutGame ==
    (response.op = "check" /\ ~session[response.visitor].stored) =>
        /\ response.status = "KeyError"
        /\ response.line = 87
        /\ response.word = NoneVal
        /\ response.message = NoMessage
        /\ session[response.visitor] = NoSession

\* a word was submitted by a visitor who never asked for the page, while
\* the other visitor has a game
C18_Witness ==
    /\ response.op = "check"
    /\ response.status = "KeyError"
    /\ ~session[response.visitor].stored
    /\ \E w \in Visitors : session[w].stored

====
